---- MODULE Spec2Model ----
(***************************************************************************)
(* LocalSOPIdentifier (src/src/local_sop_identifier.py): hybrid retrieval  *)
(* (FAISS cosine + BM25), confidence tiers, recommendation, and the index  *)
(* life cycle (build_index / load_index).                                  *)
(*                                                                         *)
(* Numbers.  A Python float is modelled in fixed point.  A raw score of a   *)
(* collaborator is an integer number of 1e-4 (Unit per 1.0), a normalized  *)
(* score an integer number of 1e-5 (Fine per 1.0).  A weight or threshold  *)
(* is an integer number of tenths (0.6 -> 6, 0.7 -> 7), so a weighted sum  *)
(* is exact in units of 1e-6.  A value reported through round(x, 4) is an  *)
(* integer number of 1e-4.  None is the empty tuple, a present x is <<x>>. *)
(***************************************************************************)
EXTENDS Integers, Sequences, FiniteSets, TLC

VARIABLES sop_chunks,        \* self.sop_chunks: the catalog, a sequence of chunks
          tokenized_corpus,  \* self.tokenized_corpus: one token list per row
          faiss_index,       \* self.faiss_index: None or <<rows of the index>>
          bm25,              \* self.bm25: None or <<corpus the scorer was fitted on>>
          disk,              \* the two snapshot files of the save path
          argsort_ties,      \* how this numpy build orders equal keys in argsort
          oracle,            \* what the collaborators answer for the query text
          call,              \* the last operation called, with its arguments
          ret,               \* what that call returned or raised
          built_or_loaded,   \* history: some build_index or load_index returned
          pc,                \* where a rebuild running beside the queries stands
          sop_file,          \* the SOP file parse_sops is given: its sections, or its text
          files,             \* the files at the paths build_index and load_index name
          model_name         \* the sentence-transformer model the instance encodes with

vars == <<sop_chunks, tokenized_corpus, faiss_index, bm25, disk, argsort_ties,
          oracle, call, ret, built_or_loaded, pc, sop_file, files, model_name>>

-----------------------------------------------------------------------------
(* Bounds of the model *)

MaxRows == 3    \* largest catalog
MaxK == 4       \* largest top_k a caller passes
MaxSections == 3    \* most sections between separators in a file parse_sops reads
MaxTokens == 5      \* most pieces of text in a file parse_sops reads piece by piece

-----------------------------------------------------------------------------
(* Values that stay fixed where a specification does not follow them *)

\* __init__(model_name='all-MiniLM-L6-v2')
DefaultModel == "all-MiniLM-L6-v2"

\* no file at any path
NoFiles == <<>>

-----------------------------------------------------------------------------
(* Program constants *)

RoundDigits == 4              \* round(confidence, 4)
HighBreak == 7                \* if confidence >= 0.7  (tenths)
MediumBreak == 4              \* elif confidence >= 0.4  (tenths)
AcceptBreak == 7              \* if best_sop['confidence_score'] >= 0.7  (tenths)
DefaultSemanticWeight == 6    \* semantic_weight: float = 0.6  (tenths)
DefaultBm25Weight == 4        \* bm25_weight: float = 0.4  (tenths)
DefaultThreshold == 4         \* confidence_threshold: float = 0.4  (tenths)
DefaultSelectTopK == 3        \* select_best_sop(top_k: int = 3)
FaissCap == 100               \* k = min(len(self.sop_chunks), 100)

Unit == 10 ^ RoundDigits      \* raw and reported values: units per 1.0
Fine == Unit * 10             \* normalized values: units per 1.0
None == <<>>
Some(x) == <<x>>

Min(a, b) == IF a <= b THEN a ELSE b
Max(a, b) == IF a >= b THEN a ELSE b
Abs(a) == IF a >= 0 THEN a ELSE -a

-----------------------------------------------------------------------------
(* Python and numpy primitives *)

\* a / b for b > 0, rounded to the nearest unit (float division)
RoundDiv(a, b) == (2 * a + b) \div (2 * b)

\* round(x, 4) of a value held in units of 1/(Unit * per): Python rounds to the
\* nearest 1e-4, a tie to the even neighbour
Round4(x, per) ==
    LET q == x \div per
        r == x % per
    IN  IF 2 * r < per THEN q
        ELSE IF 2 * r > per THEN q + 1
        ELSE IF q % 2 = 0 THEN q ELSE q + 1

RECURSIVE SeqMax(_)
\* numpy's a.max() of a non-empty array
SeqMax(s) == IF Len(s) = 1 THEN s[1] ELSE Max(s[Len(s)], SeqMax(SubSeq(s, 1, Len(s) - 1)))

\* seq[:k]: a negative k counts from the end
Slice(s, k) ==
    IF k >= 0 THEN SubSeq(s, 1, Min(k, Len(s)))
    ELSE SubSeq(s, 1, Max(Len(s) + k, 0))

\* seq[::-1]
Reverse(s) == [p \in 1..Len(s) |-> s[Len(s) + 1 - p]]

\* i sorts before j in an ascending argsort; equal keys keep their index order
\* in a stable sort and may come out in any order in an unstable one, of which
\* the reversed order is the outcome modelled
SortsBefore(a, i, j, ties) ==
    \/ a[i] < a[j]
    \/ a[i] = a[j] /\ (IF ties = "stable" THEN i < j ELSE i > j)

\* np.argsort(a): the row indices in ascending order of a
Argsort(a, ties) ==
    [p \in 1..Len(a) |->
        CHOOSE i \in 1..Len(a) :
            Cardinality({j \in 1..Len(a) : SortsBefore(a, j, i, ties)}) = p - 1]

-----------------------------------------------------------------------------
(* Collaborators: what the embedding model with FAISS, and BM25, answer *)

\* faiss_index.search(query_embedding, k) on an index whose rows are `rows`:
\* the k rows of largest inner product, as a set of row indices
FaissSearch(rows, o, k) ==
    LET sims == [j \in 1..Len(rows) |-> o.sem[rows[j]]]
        order == Reverse(Argsort(sims, "reversed"))
    IN  {order[p] : p \in 1..Min(k, Len(rows))}

\* bm25.get_scores(tokenized_query): one raw score per row of the fitted corpus
Bm25Scores(corpus, o) == [j \in 1..Len(corpus) |-> o.bm[corpus[j]]]

-----------------------------------------------------------------------------
(* retrieve_relevant_sops *)

\* What a call gave back: the exception it raised ("none" when it returned),
\* the list retrieve_relevant_sops returned, the dict select_best_sop returned
Returned(results, decision) == [raised |-> "none", results |-> results, decision |-> decision]
Raised(kind) == [raised |-> kind, results |-> <<>>, decision |-> None]

\* mutant of Normalize: a / (a.max() + eps), the smoothed form of the division
NormalizeSmoothed(a) ==
    IF SeqMax(a) > 0 THEN [i \in 1..Len(a) |-> RoundDiv(a[i] * Fine, SeqMax(a) + 1)]
    ELSE [i \in 1..Len(a) |-> a[i] * (Fine \div Unit)]

\* a / a.max() when a.max() > 0, else a itself (in the finer unit)
Normalize(a) ==
    IF SeqMax(a) > 0 THEN [i \in 1..Len(a) |-> RoundDiv(a[i] * Fine, SeqMax(a))]
    ELSE [i \in 1..Len(a) |-> a[i] * (Fine \div Unit)]

\* the dense semantic_scores array: zeros, overwritten at the rows FAISS returned
SemanticScores(n, rows, hits, o) ==
    [i \in 1..n |-> IF i \in hits THEN o.sem[rows[i]] ELSE 0]

\* mutant of HybridScores: the two weights applied to the wrong arrays
HybridScoresSwapped(sw, bw, sn, bn) ==
    [i \in 1..Max(Len(sn), Len(bn)) |->
        bw * sn[IF Len(sn) = 1 THEN 1 ELSE i] + sw * bn[IF Len(bn) = 1 THEN 1 ELSE i]]

\* semantic_weight * semantic_scores_norm + bm25_weight * bm25_scores_norm, in
\* units of 1e-6; numpy stretches an array of length 1 to the other's length
HybridScores(sw, bw, sn, bn) ==
    [i \in 1..Max(Len(sn), Len(bn)) |->
        sw * sn[IF Len(sn) = 1 THEN 1 ELSE i] + bw * bn[IF Len(bn) = 1 THEN 1 ELSE i]]

\* mutant of TopIndices: the [:top_k] cut forgotten
TopIndicesUncut(hybrid, ties, top_k) == Reverse(Argsort(hybrid, ties))

\* mutant of TopIndices: the [::-1] reversal forgotten
TopIndicesAscending(hybrid, ties, top_k) == Slice(Argsort(hybrid, ties), top_k)

\* np.argsort(hybrid_scores)[::-1][:top_k]
TopIndices(hybrid, ties, top_k) == Slice(Reverse(Argsort(hybrid, ties)), top_k)

\* the tier of one candidate, from its unrounded hybrid score
ConfidenceLevel(confidence) ==
    IF confidence >= HighBreak * Fine THEN "HIGH"
    ELSE IF confidence >= MediumBreak * Fine THEN "MEDIUM"
    ELSE "LOW"

\* one entry of the returned list; `row` is the catalog row the entry was made
\* from, kept for the properties only
ResultEntry(chunks, hybrid, sn, bn, idx) ==
    [row |-> idx,
     id |-> chunks[idx].id,
     title |-> chunks[idx].title,
     sop_number |-> chunks[idx].sop_number,
     confidence_score |-> Round4(hybrid[idx], (Fine * 10) \div Unit),
     confidence_level |-> ConfidenceLevel(hybrid[idx]),
     semantic_score |-> Round4(sn[idx], Fine \div Unit),
     bm25_score |-> Round4(bn[idx], Fine \div Unit)]

\* mutant of RankAndReport: rows whose fused score is not positive are left out
RankAndReportPositive(chunks, semantic_scores, bm25_scores, ties, top_k, sw, bw) ==
    LET n == Len(chunks)
        sn == Normalize(semantic_scores)
        bn == Normalize(bm25_scores)
    IN  IF Len(bn) # n /\ Len(bn) # 1 /\ n # 1 THEN Raised("ValueError: broadcast")
        ELSE LET hybrid == HybridScores(sw, bw, sn, bn)
                 Positive(i) == hybrid[i] > 0
                 top == SelectSeq(TopIndices(hybrid, ties, top_k), Positive)
             IN  IF \E p \in 1..Len(top) : top[p] > n \/ top[p] > Len(bn)
                 THEN Raised("IndexError")
                 ELSE Returned([p \in 1..Len(top) |->
                                   ResultEntry(chunks, hybrid, sn, bn, top[p])], None)

\* the ranking and the result loop, once both raw score arrays exist
RankAndReport(chunks, semantic_scores, bm25_scores, ties, top_k, sw, bw) ==
    LET n == Len(chunks)
        sn == Normalize(semantic_scores)
        bn == Normalize(bm25_scores)
    IN  IF Len(bn) # n /\ Len(bn) # 1 /\ n # 1 THEN Raised("ValueError: broadcast")
        ELSE LET hybrid == HybridScores(sw, bw, sn, bn)
                 top == TopIndices(hybrid, ties, top_k)
             IN  IF \E p \in 1..Len(top) : top[p] > n \/ top[p] > Len(bn)
                 THEN Raised("IndexError")
                 ELSE Returned([p \in 1..Len(top) |->
                                   ResultEntry(chunks, hybrid, sn, bn, top[p])], None)

\* mutant of RetrieveRelevantSops: the guard tests the embedding index alone, so an
\* empty catalog reaches the normalisation, where the maximum of no score raises
RetrieveRelevantSopsUnguarded(chunks, fidx, bm, o, ties, top_k, sw, bw) ==
    IF fidx = None THEN Raised("ValueError: Index not built or loaded")
    ELSE IF chunks = <<>> THEN Raised("ValueError: zero-size array")
    ELSE LET n == Len(chunks)
             rows == fidx[1]
             hits == FaissSearch(rows, o, Min(n, FaissCap))
         IN  IF \E idx \in hits : idx > n THEN Raised("IndexError")
             ELSE IF bm = None THEN Raised("AttributeError")
             ELSE RankAndReport(chunks, SemanticScores(n, rows, hits, o),
                                Bm25Scores(bm[1], o), ties, top_k, sw, bw)

\* retrieve_relevant_sops(query, top_k, semantic_weight, bm25_weight)
RetrieveRelevantSops(chunks, fidx, bm, o, ties, top_k, sw, bw) ==
    IF chunks = <<>> \/ fidx = None THEN Raised("ValueError: Index not built or loaded")
    ELSE LET n == Len(chunks)
             rows == fidx[1]
             hits == FaissSearch(rows, o, Min(n, FaissCap))
         IN  IF \E idx \in hits : idx > n THEN Raised("IndexError")
             ELSE IF bm = None THEN Raised("AttributeError")
             ELSE RankAndReport(chunks, SemanticScores(n, rows, hits, o),
                                Bm25Scores(bm[1], o), ties, top_k, sw, bw)

-----------------------------------------------------------------------------
(* select_best_sop *)

\* mutant of Recommendation: > 0.7 in place of >= 0.7
RecommendationStrict(score, thr) ==
    IF score * 10 > AcceptBreak * Unit THEN "ACCEPT"
    ELSE IF score * 10 >= thr * Unit THEN "REVIEW"
    ELSE "REJECT"

\* mutant of Recommendation: the threshold comparison turned around
RecommendationFlipped(score, thr) ==
    IF score * 10 >= AcceptBreak * Unit THEN "ACCEPT"
    ELSE IF score * 10 <= thr * Unit THEN "REVIEW"
    ELSE "REJECT"

\* the recommendation for the top entry's reported score; thr is in tenths
Recommendation(score, thr) ==
    IF score * 10 >= AcceptBreak * Unit THEN "ACCEPT"
    ELSE IF score * 10 >= thr * Unit THEN "REVIEW"
    ELSE "REJECT"

NoMatchDecision ==
    [selected_sop_id |-> None,
     selected_sop_number |-> None,
     selected_sop_title |-> None,
     confidence_score |-> 0,
     confidence_level |-> "NONE",
     semantic_score |-> None,
     bm25_score |-> None,
     recommendation |-> "NO_MATCH",
     retrieved_sops |-> <<>>,
     alternative_sops |-> None]

\* mutant of Decision: alternative_sops is the whole list, the selected SOP included
DecisionKeepingSelected(relevant_sops, thr) ==
    LET best_sop == relevant_sops[1]
    IN  [selected_sop_id |-> Some(best_sop.id),
         selected_sop_number |-> Some(best_sop.sop_number),
         selected_sop_title |-> Some(best_sop.title),
         confidence_score |-> best_sop.confidence_score,
         confidence_level |-> best_sop.confidence_level,
         semantic_score |-> Some(best_sop.semantic_score),
         bm25_score |-> Some(best_sop.bm25_score),
         recommendation |-> Recommendation(best_sop.confidence_score, thr),
         retrieved_sops |-> relevant_sops,
         alternative_sops |-> Some(relevant_sops)]

Decision(relevant_sops, thr) ==
    LET best_sop == relevant_sops[1]
    IN  [selected_sop_id |-> Some(best_sop.id),
         selected_sop_number |-> Some(best_sop.sop_number),
         selected_sop_title |-> Some(best_sop.title),
         confidence_score |-> best_sop.confidence_score,
         confidence_level |-> best_sop.confidence_level,
         semantic_score |-> Some(best_sop.semantic_score),
         bm25_score |-> Some(best_sop.bm25_score),
         recommendation |-> Recommendation(best_sop.confidence_score, thr),
         retrieved_sops |-> relevant_sops,
         alternative_sops |-> Some(IF Len(relevant_sops) > 1
                                   THEN SubSeq(relevant_sops, 2, Len(relevant_sops))
                                   ELSE <<>>)]

\* mutant of SelectBestSop: a best candidate of tier LOW is reported as no match
SelectBestSopDroppingLow(chunks, fidx, bm, o, ties, top_k, thr) ==
    LET r == RetrieveRelevantSops(chunks, fidx, bm, o, ties, top_k,
                                  DefaultSemanticWeight, DefaultBm25Weight)
    IN  IF r.raised # "none" THEN r
        ELSE IF r.results = <<>> THEN Returned(<<>>, Some(NoMatchDecision))
        ELSE IF r.results[1].confidence_level = "LOW"
             THEN Returned(<<>>, Some(NoMatchDecision))
        ELSE Returned(<<>>, Some(Decision(r.results, thr)))

\* select_best_sop(incident_context, top_k, confidence_threshold)
SelectBestSop(chunks, fidx, bm, o, ties, top_k, thr) ==
    LET r == RetrieveRelevantSops(chunks, fidx, bm, o, ties, top_k,
                                  DefaultSemanticWeight, DefaultBm25Weight)
    IN  IF r.raised # "none" THEN r
        ELSE IF r.results = <<>> THEN Returned(<<>>, Some(NoMatchDecision))
        ELSE Returned(<<>>, Some(Decision(r.results, thr)))

-----------------------------------------------------------------------------
(* build_index and load_index *)

\* A record of the SOP file is stood for by its SOP number d: the chunk
\* parse_sops makes of it, its text, its token list and its embedding row are
\* all functions of d.
Chunk(d) == [id |-> d, title |-> d, content |-> d, sop_number |-> d]

\* parse_sops(file): one chunk per well-formed record, in file order
ParseSops(src) == [i \in 1..Len(src) |-> Chunk(src[i])]

\* A section of a file, i.e. what stands between two '---' once stripped:
\* starts says that it starts with 'SOP-', colon that its first line has a ':',
\* digits that the text between 'SOP-' and the first ':' is what int() accepts,
\* and d is the record the section describes.
Section(starts, colon, digits, d) ==
    [starts |-> starts, colon |-> colon, digits |-> digits, d |-> d]

\* parse_sops(file) on the sections of any file: the loop of lines 74-92. A section
\* that passes both tests reaches int(), which raises on what is not a number.
ParseSections(sections) ==
    LET Taken(sec) == sec.starts /\ sec.colon
        taken == SelectSeq(sections, Taken)
    IN  IF \E i \in 1..Len(taken) : ~taken[i].digits
        THEN Raised("ValueError: invalid literal for int()")
        ELSE Returned([i \in 1..Len(taken) |-> Chunk(taken[i].d)], None)

\* corpus = [chunk['content'] for chunk in self.sop_chunks]
Corpus(chunks) == [i \in 1..Len(chunks) |-> chunks[i].content]

\* [self._tokenize(doc) for doc in corpus]
TokenizedCorpus(corpus) == [i \in 1..Len(corpus) |-> corpus[i]]

\* mutant of Snapshot: index_data without the token lists of the corpus
SnapshotWithoutTokens(chunks, tokens) ==
    [valid |-> TRUE, sop_chunks |-> chunks, tokenized_corpus |-> <<>>]

\* the metadata file pickle.dump writes, and a file cut short by a failed dump
Snapshot(chunks, tokens) == [valid |-> TRUE, sop_chunks |-> chunks, tokenized_corpus |-> tokens]
Truncated == [valid |-> FALSE, sop_chunks |-> <<>>, tokenized_corpus |-> <<>>]

\* where a build_index call may stop with an exception
BuildFailures == {"none", "encode", "bm25", "write_index", "open", "dump"}

\* where a load_index call may stop for a reason other than a missing file
LoadFailures == {"none", "read_index", "bm25"}

Args(op, top_k, sw, bw, thr) ==
    [op |-> op, top_k |-> top_k, semantic_weight |-> sw, bm25_weight |-> bw,
     confidence_threshold |-> thr]

\* build_index(sop_file_path, save_path): src is what the file parses to, fail
\* the step at which a collaborator or the file system raises
BuildIndex(src, fail) ==
    LET chunks == ParseSops(src)
        corpus == Corpus(chunks)
        tokens == TokenizedCorpus(corpus)
        empty == chunks = <<>>
        reached(step) ==
            /\ ~empty
            /\ CASE step = "faiss_index" -> fail \notin {"encode"}
                 [] step = "tokenized_corpus" -> fail \notin {"encode"}
                 [] step = "bm25" -> fail \notin {"encode", "bm25"}
                 [] step = "faiss_file" -> fail \notin {"encode", "bm25", "write_index"}
                 [] step = "meta_open" -> fail \notin {"encode", "bm25", "write_index", "open"}
                 [] step = "meta_file" -> fail = "none"
    IN  /\ empty => fail = "none"
        /\ sop_chunks' = chunks
        /\ faiss_index' = IF reached("faiss_index") THEN Some(corpus) ELSE faiss_index
        /\ tokenized_corpus' = IF reached("tokenized_corpus") THEN tokens ELSE tokenized_corpus
        /\ bm25' = IF reached("bm25") THEN Some(tokens) ELSE bm25
        /\ disk' = [faiss |-> IF reached("faiss_file") THEN Some(corpus) ELSE disk.faiss,
                    meta |-> IF reached("meta_file") THEN Some(Snapshot(chunks, tokens))
                             ELSE IF reached("meta_open") THEN Some(Truncated)
                             ELSE disk.meta]
        /\ call' = Args("build_index", 0, 0, 0, 0)
        /\ ret' = IF empty THEN Raised("ValueError: No SOP chunks found")
                  ELSE IF fail = "none" THEN Returned(<<>>, None)
                  ELSE Raised(fail)
        /\ built_or_loaded' = (built_or_loaded \/ (~empty /\ fail = "none"))
        /\ UNCHANGED <<argsort_ties, oracle, pc, sop_file, files, model_name>>

\* mutant of LoadIndex: without the os.path.exists test of the blob's path, so a
\* missing blob is met by faiss.read_index and raises that library's error
LoadIndexUnchecked(fail) ==
    LET meta_missing == disk.meta = None
        unreadable == ~meta_missing /\ ~disk.meta[1].valid
        assigned == ~meta_missing /\ ~unreadable
        faiss_missing == disk.faiss = None
        read == assigned /\ ~faiss_missing /\ fail # "read_index"
        fitted == read /\ fail # "bm25"
    IN  /\ (meta_missing \/ unreadable \/ faiss_missing) => fail = "none"
        /\ sop_chunks' = IF assigned THEN disk.meta[1].sop_chunks ELSE sop_chunks
        /\ tokenized_corpus' = IF assigned THEN disk.meta[1].tokenized_corpus
                               ELSE tokenized_corpus
        /\ faiss_index' = IF read THEN disk.faiss ELSE faiss_index
        /\ bm25' = IF fitted THEN Some(disk.meta[1].tokenized_corpus) ELSE bm25
        /\ call' = Args("load_index", 0, 0, 0, 0)
        /\ ret' = IF meta_missing THEN Raised("FileNotFoundError: Index file not found")
                  ELSE IF unreadable THEN Raised("EOFError")
                  ELSE IF faiss_missing THEN Raised("read_index")
                  ELSE IF fail # "none" THEN Raised(fail)
                  ELSE Returned(<<>>, None)
        /\ built_or_loaded' = (built_or_loaded \/ fitted)
        /\ UNCHANGED <<disk, argsort_ties, oracle, pc, sop_file, files, model_name>>

\* load_index(index_path)
LoadIndex(fail) ==
    LET meta_missing == disk.meta = None
        unreadable == ~meta_missing /\ ~disk.meta[1].valid
        assigned == ~meta_missing /\ ~unreadable
        faiss_missing == disk.faiss = None
        read == assigned /\ ~faiss_missing /\ fail # "read_index"
        fitted == read /\ fail # "bm25"
    IN  /\ (meta_missing \/ unreadable \/ faiss_missing) => fail = "none"
        /\ sop_chunks' = IF assigned THEN disk.meta[1].sop_chunks ELSE sop_chunks
        /\ tokenized_corpus' = IF assigned THEN disk.meta[1].tokenized_corpus
                               ELSE tokenized_corpus
        /\ faiss_index' = IF read THEN disk.faiss ELSE faiss_index
        /\ bm25' = IF fitted THEN Some(disk.meta[1].tokenized_corpus) ELSE bm25
        /\ call' = Args("load_index", 0, 0, 0, 0)
        /\ ret' = IF meta_missing THEN Raised("FileNotFoundError: Index file not found")
                  ELSE IF unreadable THEN Raised("EOFError")
                  ELSE IF faiss_missing
                       THEN Raised("FileNotFoundError: FAISS index file not found")
                  ELSE IF fail # "none" THEN Raised(fail)
                  ELSE Returned(<<>>, None)
        /\ built_or_loaded' = (built_or_loaded \/ fitted)
        /\ UNCHANGED <<disk, argsort_ties, oracle, pc, sop_file, files, model_name>>

-----------------------------------------------------------------------------
(* The query operations as actions: they read the instance and change nothing *)

\* mutant of Retrieve: the query keeps of the catalog only the rows it may return
RetrieveTrimming(top_k, sw, bw) ==
    /\ call' = Args("retrieve_relevant_sops", top_k, sw, bw, 0)
    /\ ret' = RetrieveRelevantSops(sop_chunks, faiss_index, bm25, oracle, argsort_ties,
                                   top_k, sw, bw)
    /\ sop_chunks' = SubSeq(sop_chunks, 1, Min(top_k, Len(sop_chunks)))
    /\ UNCHANGED <<tokenized_corpus, faiss_index, bm25, disk, argsort_ties,
                   oracle, built_or_loaded, pc, sop_file, files, model_name>>

Retrieve(top_k, sw, bw) ==
    /\ call' = Args("retrieve_relevant_sops", top_k, sw, bw, 0)
    /\ ret' = RetrieveRelevantSops(sop_chunks, faiss_index, bm25, oracle, argsort_ties,
                                   top_k, sw, bw)
    /\ UNCHANGED <<sop_chunks, tokenized_corpus, faiss_index, bm25, disk, argsort_ties,
                   oracle, built_or_loaded, pc, sop_file, files, model_name>>

SelectBest(top_k, thr) ==
    /\ call' = Args("select_best_sop", top_k, DefaultSemanticWeight, DefaultBm25Weight, thr)
    /\ ret' = SelectBestSop(sop_chunks, faiss_index, bm25, oracle, argsort_ties, top_k, thr)
    /\ UNCHANGED <<sop_chunks, tokenized_corpus, faiss_index, bm25, disk, argsort_ties,
                   oracle, built_or_loaded, pc, sop_file, files, model_name>>

\* process_incident(input_data): select_best_sop(incident_context) with its defaults
ProcessIncident ==
    /\ call' = Args("process_incident", DefaultSelectTopK, DefaultSemanticWeight,
                    DefaultBm25Weight, DefaultThreshold)
    /\ ret' = SelectBestSop(sop_chunks, faiss_index, bm25, oracle, argsort_ties,
                            DefaultSelectTopK, DefaultThreshold)
    /\ UNCHANGED <<sop_chunks, tokenized_corpus, faiss_index, bm25, disk, argsort_ties,
                   oracle, built_or_loaded, pc, sop_file, files, model_name>>

-----------------------------------------------------------------------------
(* Inputs *)

\* the SOP file whose well-formed records are SOP-1 .. SOP-n, in that order
Source(n) == [i \in 1..n |-> i]

\* the SOP files build_index is given, the one without a record included
Sources == {Source(n) : n \in 0..MaxRows}

TopKs == 0..MaxK
WeightPairs == {<<DefaultSemanticWeight, DefaultBm25Weight>>, <<10, 10>>, <<10, 0>>}
Thresholds == {2, DefaultThreshold, AcceptBreak, 8}

\* what the collaborators may answer about one record: <<raw cosine similarity,
\* raw BM25 score>>, with cosines -0.5, 0, 0.5, 0.75 and BM25 scores 0, 0.2499, 1.0
RowAnswers ==
    {<<7500, 2499>>, <<5000, 10000>>, <<0, 0>>, <<-5000, 10000>>,
     <<0, 10000>>, <<7500, 0>>, <<5000, 2499>>, <<-5000, 0>>}

\* every answer the collaborators may give about a catalog of n records
Oracles(n) ==
    {[sem |-> [d \in 1..n |-> a[d][1]], bm |-> [d \in 1..n |-> a[d][2]]] :
        a \in [1..n -> RowAnswers]}

\* the answers to a query about SOP-1
RelatedQuery ==
    [sem |-> [d \in 1..MaxRows |-> IF d = 1 THEN 7500 ELSE 5000],
     bm |-> [d \in 1..MaxRows |-> IF d = 1 THEN 10000 ELSE 2499]]

-----------------------------------------------------------------------------
(* Spec: the life cycle of one instance, from its construction *)

Init ==
    /\ sop_chunks = <<>>
    /\ tokenized_corpus = <<>>
    /\ faiss_index = None
    /\ bm25 = None
    /\ disk = [faiss |-> None, meta |-> None]
    /\ argsort_ties \in {"stable", "reversed"}
    /\ oracle = RelatedQuery
    /\ call = Args("__init__", 0, 0, 0, 0)
    /\ ret = Returned(<<>>, None)
    /\ built_or_loaded = FALSE
    /\ pc = "idle"
    /\ sop_file = <<>>
    /\ files = NoFiles
    /\ model_name = DefaultModel

Next ==
    \/ \E src \in Sources, fail \in BuildFailures : BuildIndex(src, fail)
    \/ \E fail \in LoadFailures : LoadIndex(fail)
    \/ \E top_k \in {1, MaxK} : Retrieve(top_k, DefaultSemanticWeight, DefaultBm25Weight)
    \/ \E thr \in {DefaultThreshold, 8} : SelectBest(DefaultSelectTopK, thr)
    \/ ProcessIncident

Spec == Init /\ [][Next]_vars

-----------------------------------------------------------------------------
(* SpecQ: a query against an instance that build_index has just built, for   *)
(* every catalog size and every answer of the collaborators                  *)

InitQ ==
    \E n \in 1..MaxRows :
        LET chunks == ParseSops(Source(n))
            tokens == TokenizedCorpus(Corpus(chunks))
        IN  /\ sop_chunks = chunks
            /\ tokenized_corpus = tokens
            /\ faiss_index = Some(Corpus(chunks))
            /\ bm25 = Some(tokens)
            /\ disk = [faiss |-> Some(Corpus(chunks)), meta |-> Some(Snapshot(chunks, tokens))]
            /\ argsort_ties \in {"stable", "reversed"}
            /\ oracle \in Oracles(n)
            /\ call = Args("build_index", 0, 0, 0, 0)
            /\ ret = Returned(<<>>, None)
            /\ built_or_loaded = TRUE
            /\ pc = "idle"
            /\ sop_file = <<>>
            /\ files = NoFiles
            /\ model_name = DefaultModel

\* A query changes nothing it reads, so a second query reaches the states the
\* first one reaches: one query per run reaches them all.
Fresh == call.op = "build_index"

NextQ ==
    \/ Fresh /\ \E top_k \in TopKs, w \in WeightPairs : Retrieve(top_k, w[1], w[2])
    \/ Fresh /\ \E top_k \in TopKs, thr \in Thresholds : SelectBest(top_k, thr)
    \/ Fresh /\ ProcessIncident

SpecQ == InitQ /\ [][NextQ]_vars

-----------------------------------------------------------------------------
(* SpecR: retrieve_relevant_sops with its default weights against an instance *)
(* that build_index has just built, for every catalog size, every answer of  *)
(* the collaborators and every top_k                                         *)

NextR ==
    Fresh /\ \E top_k \in TopKs : Retrieve(top_k, DefaultSemanticWeight, DefaultBm25Weight)

SpecR == InitQ /\ [][NextR]_vars

-----------------------------------------------------------------------------
(* SpecS: select_best_sop and process_incident against an instance that       *)
(* build_index has just built, for every catalog size, every answer of the   *)
(* collaborators and every top_k                                             *)

NextS ==
    \/ Fresh /\ \E top_k \in TopKs, thr \in {DefaultThreshold, AcceptBreak} :
                     SelectBest(top_k, thr)
    \/ Fresh /\ ProcessIncident

SpecS == InitQ /\ [][NextS]_vars

-----------------------------------------------------------------------------
(* SpecL: load_index on an instance fresh from its constructor, for every     *)
(* pair of files it may find at index_path: either file is absent or is what *)
(* a completed build_index wrote there                                       *)

BlobFiles == {None} \cup {Some(Corpus(ParseSops(Source(n)))) : n \in 1..MaxRows}

MetaFiles ==
    {None} \cup {Some(Snapshot(ParseSops(Source(n)),
                               TokenizedCorpus(Corpus(ParseSops(Source(n)))))) :
                     n \in 1..MaxRows}

InitL ==
    /\ sop_chunks = <<>>
    /\ tokenized_corpus = <<>>
    /\ faiss_index = None
    /\ bm25 = None
    /\ disk \in [faiss : BlobFiles, meta : MetaFiles]
    /\ argsort_ties \in {"stable", "reversed"}
    /\ oracle = RelatedQuery
    /\ call = Args("__init__", 0, 0, 0, 0)
    /\ ret = Returned(<<>>, None)
    /\ built_or_loaded = FALSE
    /\ pc = "idle"
    /\ sop_file = <<>>
    /\ files = NoFiles
    /\ model_name = DefaultModel

NextL ==
    \/ \E fail \in LoadFailures : LoadIndex(fail)
    \/ \E top_k \in {1, MaxK} : Retrieve(top_k, DefaultSemanticWeight, DefaultBm25Weight)
    \/ \E thr \in {DefaultThreshold, 8} : SelectBest(DefaultSelectTopK, thr)
    \/ ProcessIncident

SpecL == InitL /\ [][NextL]_vars

-----------------------------------------------------------------------------
(* SpecC: queries of one thread beside a rebuild of another thread on the same *)
(* instance. The class takes no lock, so a query may run between any two       *)
(* assignments of build_index or load_index; pc is the rebuild's position and  *)
(* call is the call that took the last step.                                   *)

\* build_index up to line 122: the catalog is replaced
BuildParse(src) ==
    /\ pc = "idle"
    /\ ParseSops(src) # <<>>
    /\ sop_chunks' = ParseSops(src)
    /\ pc' = "build:encode"
    /\ call' = Args("build_index", 0, 0, 0, 0)
    /\ UNCHANGED <<tokenized_corpus, faiss_index, bm25, disk, argsort_ties, oracle, ret,
                   built_or_loaded, sop_file, files, model_name>>

\* lines 128-141: the corpus is encoded, then an index without rows is assigned
BuildAllocate ==
    /\ pc = "build:encode"
    /\ faiss_index' = Some(<<>>)
    /\ pc' = "build:add"
    /\ call' = Args("build_index", 0, 0, 0, 0)
    /\ UNCHANGED <<sop_chunks, tokenized_corpus, bm25, disk, argsort_ties, oracle, ret,
                   built_or_loaded, sop_file, files, model_name>>

\* lines 144-147: the rows are added to the index already assigned
BuildAdd ==
    /\ pc = "build:add"
    /\ faiss_index' = Some(Corpus(sop_chunks))
    /\ pc' = "build:bm25"
    /\ call' = Args("build_index", 0, 0, 0, 0)
    /\ UNCHANGED <<sop_chunks, tokenized_corpus, bm25, disk, argsort_ties, oracle, ret,
                   built_or_loaded, sop_file, files, model_name>>

\* lines 151-152
BuildLexical ==
    /\ pc = "build:bm25"
    /\ tokenized_corpus' = TokenizedCorpus(Corpus(sop_chunks))
    /\ bm25' = Some(TokenizedCorpus(Corpus(sop_chunks)))
    /\ pc' = "build:save"
    /\ call' = Args("build_index", 0, 0, 0, 0)
    /\ UNCHANGED <<sop_chunks, faiss_index, disk, argsort_ties, oracle, ret,
                   built_or_loaded, sop_file, files, model_name>>

\* lines 155-174: both files are written and the call returns
BuildSave ==
    /\ pc = "build:save"
    /\ disk' = [faiss |-> faiss_index, meta |-> Some(Snapshot(sop_chunks, tokenized_corpus))]
    /\ pc' = "idle"
    /\ call' = Args("build_index", 0, 0, 0, 0)
    /\ ret' = Returned(<<>>, None)
    /\ built_or_loaded' = TRUE
    /\ UNCHANGED <<sop_chunks, tokenized_corpus, faiss_index, bm25, argsort_ties, oracle,
                   sop_file, files, model_name>>

\* load_index up to line 194: the catalog and the token lists are replaced
LoadMeta ==
    /\ pc = "idle"
    /\ disk.meta # None /\ disk.meta[1].valid
    /\ sop_chunks' = disk.meta[1].sop_chunks
    /\ tokenized_corpus' = disk.meta[1].tokenized_corpus
    /\ pc' = "load:faiss"
    /\ call' = Args("load_index", 0, 0, 0, 0)
    /\ UNCHANGED <<faiss_index, bm25, disk, argsort_ties, oracle, ret, built_or_loaded,
                   sop_file, files, model_name>>

\* lines 197-201
LoadBlob ==
    /\ pc = "load:faiss"
    /\ disk.faiss # None
    /\ faiss_index' = disk.faiss
    /\ pc' = "load:bm25"
    /\ call' = Args("load_index", 0, 0, 0, 0)
    /\ UNCHANGED <<sop_chunks, tokenized_corpus, bm25, disk, argsort_ties, oracle, ret,
                   built_or_loaded, sop_file, files, model_name>>

\* lines 204-207: the lexical index is fitted and the call returns
LoadLexical ==
    /\ pc = "load:bm25"
    /\ bm25' = Some(tokenized_corpus)
    /\ pc' = "idle"
    /\ call' = Args("load_index", 0, 0, 0, 0)
    /\ ret' = Returned(<<>>, None)
    /\ built_or_loaded' = TRUE
    /\ UNCHANGED <<sop_chunks, tokenized_corpus, faiss_index, disk, argsort_ties, oracle,
                   sop_file, files, model_name>>

\* an instance that has built one catalog, and at index_path the snapshot a
\* completed build of the same or of another catalog has saved
InitC ==
    \E n \in 1..MaxRows, m \in 1..MaxRows :
        LET chunks == ParseSops(Source(n))
            tokens == TokenizedCorpus(Corpus(chunks))
            saved == ParseSops(Source(m))
        IN  /\ sop_chunks = chunks
            /\ tokenized_corpus = tokens
            /\ faiss_index = Some(Corpus(chunks))
            /\ bm25 = Some(tokens)
            /\ disk = [faiss |-> Some(Corpus(saved)),
                       meta |-> Some(Snapshot(saved, TokenizedCorpus(Corpus(saved))))]
            /\ argsort_ties \in {"stable", "reversed"}
            /\ oracle = RelatedQuery
            /\ call = Args("build_index", 0, 0, 0, 0)
            /\ ret = Returned(<<>>, None)
            /\ built_or_loaded = TRUE
            /\ pc = "idle"
            /\ sop_file = <<>>
            /\ files = NoFiles
            /\ model_name = DefaultModel

NextC ==
    \/ \E src \in Sources : BuildParse(src)
    \/ BuildAllocate
    \/ BuildAdd
    \/ BuildLexical
    \/ BuildSave
    \/ LoadMeta
    \/ LoadBlob
    \/ LoadLexical
    \/ \E top_k \in {1, MaxK} : Retrieve(top_k, DefaultSemanticWeight, DefaultBm25Weight)
    \/ SelectBest(DefaultSelectTopK, DefaultThreshold)
    \/ ProcessIncident

SpecC == InitC /\ [][NextC]_vars

-----------------------------------------------------------------------------
(* SpecP: parse_sops on every file of at most MaxSections sections *)

\* 'SOP-<d>: <title>' records, a section that does not start with 'SOP-', one
\* whose first line has no colon ('SOP-7 Title'), one whose number is not a
\* number ('SOP-abc: Title')
SectionKinds ==
    {Section(TRUE, TRUE, TRUE, d) : d \in 1..MaxRows}
        \cup {Section(FALSE, TRUE, TRUE, 1), Section(TRUE, FALSE, TRUE, 1),
               Section(TRUE, TRUE, FALSE, 1)}

SopFiles == UNION {[1..len -> SectionKinds] : len \in 0..MaxSections}

\* parse_sops(file_path): reads the file and returns the chunks, or raises
ParseFile ==
    /\ call' = Args("parse_sops", 0, 0, 0, 0)
    /\ ret' = ParseSections(sop_file)
    /\ UNCHANGED <<sop_chunks, tokenized_corpus, faiss_index, bm25, disk, argsort_ties,
                   oracle, built_or_loaded, pc, sop_file, files, model_name>>

InitP ==
    /\ sop_chunks = <<>>
    /\ tokenized_corpus = <<>>
    /\ faiss_index = None
    /\ bm25 = None
    /\ disk = [faiss |-> None, meta |-> None]
    /\ argsort_ties = "stable"
    /\ oracle = RelatedQuery
    /\ call = Args("__init__", 0, 0, 0, 0)
    /\ ret = Returned(<<>>, None)
    /\ built_or_loaded = FALSE
    /\ pc = "idle"
    /\ sop_file \in SopFiles
    /\ files = NoFiles
    /\ model_name = DefaultModel

NextP == ParseFile

SpecP == InitP /\ [][NextP]_vars

-----------------------------------------------------------------------------
(* SpecT: parse_sops on the text of a file. The text is a sequence of pieces: *)
(* the header line 'SOP-<n>: <title>' of a record, other text without dashes, *)
(* the three characters '---', and the end of a line.                         *)

Header(n) == [kind |-> "header", n |-> n]
Words == [kind |-> "words", n |-> 0]
Dashes == [kind |-> "---", n |-> 0]
Newline == [kind |-> "newline", n |-> 0]

\* int() of line 85 takes any decimal numeral, 'SOP-0' included
TextPieces == {Header(0), Header(1), Header(2), Words, Dashes, Newline}

SopTexts == UNION {[1..len -> TextPieces] : len \in 0..MaxTokens}

\* the elements of a finite set of numbers, in ascending order
Ascending(S) ==
    [k \in 1..Cardinality(S) |->
        CHOOSE x \in S : Cardinality({y \in S : y < x}) = k - 1]

\* the parts of text between the positions in cuts, the empty ones included
SplitAt(text, cuts) ==
    LET from == Ascending({0} \cup cuts)
        to == Ascending(cuts \cup {Len(text) + 1})
    IN  [k \in 1..Len(from) |-> SubSeq(text, from[k] + 1, to[k] - 1)]

\* content.split('---'): str.split cuts at every occurrence of the characters
SplitDashes(text) == SplitAt(text, {i \in 1..Len(text) : text[i] = Dashes})

\* section.strip(): without the line ends (white space) at either end
Strip(text) ==
    LET inked == {i \in 1..Len(text) : text[i] # Newline}
    IN  IF inked = {} THEN <<>>
        ELSE SubSeq(text, Ascending(inked)[1], Ascending(inked)[Cardinality(inked)])

\* chunks.append({...}) for a section whose first line is the header 'SOP-<n>: <title>'
TextChunk(section) ==
    [id |-> [prefix |-> "sop_", number |-> section[1].n],
     title |-> [prefix |-> "SOP-", number |-> section[1].n, text |-> section[1].n],
     content |-> section,
     sop_number |-> section[1].n]

\* a stripped section that is not empty and starts with 'SOP-'
StartsWithSop(section) == section # <<>> /\ section[1].kind = "header"

\* the chunks of the sections that pass the tests of lines 76 and 82, in order
ChunksOf(sections) ==
    LET stripped == [k \in 1..Len(sections) |-> Strip(sections[k])]
        taken == SelectSeq(stripped, StartsWithSop)
    IN  [k \in 1..Len(taken) |-> TextChunk(taken[k])]

\* parse_sops(file_path) on the text of the file
ParseText(text) == Returned(ChunksOf(SplitDashes(text)), None)

ParseSopsText ==
    /\ call' = Args("parse_sops", 0, 0, 0, 0)
    /\ ret' = ParseText(sop_file)
    /\ UNCHANGED <<sop_chunks, tokenized_corpus, faiss_index, bm25, disk, argsort_ties,
                   oracle, built_or_loaded, pc, sop_file, files, model_name>>

InitT ==
    /\ sop_chunks = <<>>
    /\ tokenized_corpus = <<>>
    /\ faiss_index = None
    /\ bm25 = None
    /\ disk = [faiss |-> None, meta |-> None]
    /\ argsort_ties = "stable"
    /\ oracle = RelatedQuery
    /\ call = Args("__init__", 0, 0, 0, 0)
    /\ ret = Returned(<<>>, None)
    /\ built_or_loaded = FALSE
    /\ pc = "idle"
    /\ sop_file \in SopTexts
    /\ files = NoFiles
    /\ model_name = DefaultModel

NextT == ParseSopsText

SpecT == InitT /\ [][NextT]_vars

-----------------------------------------------------------------------------
(* SpecN: build_index and load_index with the path they are given and the     *)
(* model the instance was constructed with. A path is the sequence of its     *)
(* pieces, so that str.replace acts on it as it acts on the string; the rows  *)
(* of an embedding index carry the model that encoded them.                   *)

\* the default './data/sop_index.pkl', a path without '.pkl' in it, and one
\* with '.pkl' in another place than its end
SavePaths ==
    {<<"./data/sop_index", ".pkl">>, <<"./data/sop_index", ".bin">>,
     <<"./data/sop_index", ".pkl", ".bak">>}

\* path.replace(old, new): every occurrence is replaced, none is no error
Replace(path, old, new) ==
    [i \in 1..Len(path) |-> IF path[i] = old THEN new ELSE path[i]]

\* faiss_index_path = save_path.replace('.pkl', '.faiss'), in both methods
FaissIndexPath(path) == Replace(path, ".pkl", ".faiss")

AllPaths == SavePaths \cup {FaissIndexPath(path) : path \in SavePaths}

Models == {DefaultModel, "all-mpnet-base-v2"}

\* self.encoder.encode(corpus): one vector per text, made by the instance's model
Embed(model, corpus) == [i \in 1..Len(corpus) |-> [model |-> model, doc |-> corpus[i]]]

\* what faiss.write_index and pickle.dump leave in a file
BlobFile(rows) == [kind |-> "faiss", rows |-> rows]
MetaFile(chunks, tokens, model) ==
    [kind |-> "pickle", sop_chunks |-> chunks, tokenized_corpus |-> tokens,
     model_name |-> model]

ArgsAt(op, path) ==
    [op |-> op, path |-> path, top_k |-> 0, semantic_weight |-> 0, bm25_weight |-> 0,
     confidence_threshold |-> 0]

\* LocalSOPIdentifier(model_name): another instance takes the place of the one
\* followed so far; the files stay
Construct(model) ==
    /\ model_name' = model
    /\ sop_chunks' = <<>>
    /\ tokenized_corpus' = <<>>
    /\ faiss_index' = None
    /\ bm25' = None
    /\ call' = ArgsAt("__init__", <<>>)
    /\ ret' = Returned(<<>>, None)
    /\ built_or_loaded' = FALSE
    /\ UNCHANGED <<disk, argsort_ties, oracle, pc, sop_file, files>>

\* build_index(sop_file_path, save_path) when no collaborator fails: the blob is
\* written first and the metadata second, each at its own path
BuildIndexAt(src, save_path) ==
    LET chunks == ParseSops(src)
        empty == chunks = <<>>
        tokens == TokenizedCorpus(Corpus(chunks))
        index == Some(Embed(model_name, Corpus(chunks)))
        blob_written == [files EXCEPT ![FaissIndexPath(save_path)] = Some(BlobFile(index[1]))]
    IN  /\ sop_chunks' = chunks
        /\ faiss_index' = IF empty THEN faiss_index ELSE index
        /\ tokenized_corpus' = IF empty THEN tokenized_corpus ELSE tokens
        /\ bm25' = IF empty THEN bm25 ELSE Some(tokens)
        /\ files' = IF empty THEN files
                    ELSE [blob_written EXCEPT
                             ![save_path] = Some(MetaFile(chunks, tokens, model_name))]
        /\ call' = ArgsAt("build_index", save_path)
        /\ ret' = IF empty THEN Raised("ValueError: No SOP chunks found")
                  ELSE Returned(<<>>, None)
        /\ built_or_loaded' = (built_or_loaded \/ ~empty)
        /\ UNCHANGED <<disk, argsort_ties, oracle, pc, sop_file, model_name>>

\* load_index(index_path): pickle.load reads the file at index_path, and
\* faiss.read_index the file at the replaced path; neither reads model_name
LoadIndexAt(index_path) ==
    LET meta_missing == files[index_path] = None
        unpickled == ~meta_missing /\ files[index_path][1].kind = "pickle"
        blob_path == FaissIndexPath(index_path)
        faiss_missing == files[blob_path] = None
        read == unpickled /\ ~faiss_missing /\ files[blob_path][1].kind = "faiss"
    IN  /\ sop_chunks' = IF unpickled THEN files[index_path][1].sop_chunks ELSE sop_chunks
        /\ tokenized_corpus' = IF unpickled THEN files[index_path][1].tokenized_corpus
                               ELSE tokenized_corpus
        /\ faiss_index' = IF read THEN Some(files[blob_path][1].rows) ELSE faiss_index
        /\ bm25' = IF read THEN Some(files[index_path][1].tokenized_corpus) ELSE bm25
        /\ call' = ArgsAt("load_index", index_path)
        /\ ret' = IF meta_missing THEN Raised("FileNotFoundError: Index file not found")
                  ELSE IF ~unpickled THEN Raised("UnpicklingError")
                  ELSE IF faiss_missing
                       THEN Raised("FileNotFoundError: FAISS index file not found")
                  ELSE IF ~read THEN Raised("RuntimeError: read_index")
                  ELSE Returned(<<>>, None)
        /\ built_or_loaded' = (built_or_loaded \/ read)
        /\ UNCHANGED <<disk, argsort_ties, oracle, pc, sop_file, files, model_name>>

InitN ==
    /\ sop_chunks = <<>>
    /\ tokenized_corpus = <<>>
    /\ faiss_index = None
    /\ bm25 = None
    /\ disk = [faiss |-> None, meta |-> None]
    /\ argsort_ties = "stable"
    /\ oracle = RelatedQuery
    /\ call = ArgsAt("__init__", <<>>)
    /\ ret = Returned(<<>>, None)
    /\ built_or_loaded = FALSE
    /\ pc = "idle"
    /\ sop_file = <<>>
    /\ files = [path \in AllPaths |-> None]
    /\ model_name \in Models

NextN ==
    \/ \E model \in Models : Construct(model)
    \/ \E src \in Sources, save_path \in SavePaths : BuildIndexAt(src, save_path)
    \/ \E index_path \in SavePaths : LoadIndexAt(index_path)

SpecN == InitN /\ [][NextN]_vars

-----------------------------------------------------------------------------
(* What the properties read from a state *)

RetrieveReturned == call.op = "retrieve_relevant_sops" /\ ret.raised = "none"
SelectReturned == call.op \in {"select_best_sop", "process_incident"} /\ ret.raised = "none"
QueryCalled == call.op \in {"retrieve_relevant_sops", "select_best_sop", "process_incident"}

\* the ranked list of the last query: the returned list, or retrieved_sops
Ranked ==
    IF RetrieveReturned THEN ret.results
    ELSE IF SelectReturned THEN ret.decision[1].retrieved_sops
    ELSE <<>>

\* the unrounded hybrid score of every row for the last query
QueryHybrid ==
    LET n == Len(sop_chunks)
        hits == FaissSearch(faiss_index[1], oracle, Min(n, FaissCap))
    IN  HybridScores(call.semantic_weight, call.bm25_weight,
                     Normalize(SemanticScores(n, faiss_index[1], hits, oracle)),
                     Normalize(Bm25Scores(bm25[1], oracle)))

RankOf(recommendation) ==
    CASE recommendation = "REJECT" -> 0
      [] recommendation = "REVIEW" -> 1
      [] recommendation = "ACCEPT" -> 2
      [] OTHER -> -1

-----------------------------------------------------------------------------
(* Claims *)

\* C1: on a ready instance with a catalog of n rows, retrieve_relevant_sops with
\* top_k = k >= 1 returns exactly min(k, n) candidates, each made from a
\* different catalog row.
C1_ReturnsMinKN ==
    (call.op = "retrieve_relevant_sops" /\ call.top_k >= 1) =>
        /\ ret.raised = "none"
        /\ Len(ret.results) = Min(call.top_k, Len(sop_chunks))
        /\ \A p \in 1..Len(ret.results) : ret.results[p].row \in 1..Len(sop_chunks)
        /\ \A p, q \in 1..Len(ret.results) :
               p # q => ret.results[p].row # ret.results[q].row

\* C1 witness: top_k above the catalog size, and the whole catalog returned
C1_Witness ==
    /\ RetrieveReturned
    /\ Len(sop_chunks) >= 2
    /\ call.top_k > Len(sop_chunks)
    /\ Len(ret.results) = Len(sop_chunks)

\* C2: the returned list, and retrieved_sops of select_best_sop, is ordered by
\* non-increasing confidence_score.
C2_NonIncreasing ==
    \A p \in 1..Len(Ranked) :
        p < Len(Ranked) => Ranked[p].confidence_score >= Ranked[p + 1].confidence_score

\* C2 witness: a ranked list of three entries with two strict descents, whose
\* first entry is not row 1
C2_Witness ==
    /\ Len(Ranked) >= 3
    /\ Ranked[1].confidence_score > Ranked[2].confidence_score
    /\ Ranked[2].confidence_score > Ranked[3].confidence_score
    /\ Ranked[1].row # 1

\* C3: rows of equal fused score are ranked by ascending row index, among the
\* returned rows and across the top-k cut-off.
C3_TiesAscendingRow ==
    RetrieveReturned =>
        LET returned == {ret.results[p].row : p \in 1..Len(ret.results)}
        IN  /\ \A p, q \in 1..Len(ret.results) :
                   (p < q /\ QueryHybrid[ret.results[p].row] = QueryHybrid[ret.results[q].row])
                       => ret.results[p].row < ret.results[q].row
            /\ \A r \in returned, i \in 1..Len(sop_chunks) :
                   (i \notin returned /\ QueryHybrid[i] = QueryHybrid[r]) => r < i

\* C4: for every returned candidate the confidence_level agrees with the
\* returned confidence_score: >= 0.70 HIGH, in [0.40, 0.70) MEDIUM, below 0.40 LOW.
C4_LevelMatchesReportedScore ==
    RetrieveReturned =>
        \A p \in 1..Len(ret.results) :
            LET e == ret.results[p]
            IN  e.confidence_level =
                    (IF e.confidence_score * 10 >= HighBreak * Unit THEN "HIGH"
                     ELSE IF e.confidence_score * 10 >= MediumBreak * Unit THEN "MEDIUM"
                     ELSE "LOW")

\* C5: for confidence_threshold <= 0.70 and a top score s, the recommendation is
\* ACCEPT when s >= 0.70, REVIEW when threshold <= s < 0.70, REJECT when
\* s < threshold.
C5_RecommendationBands ==
    (SelectReturned /\ ret.decision[1].retrieved_sops # <<>>
        /\ call.confidence_threshold <= AcceptBreak) =>
        LET s == ret.decision[1].confidence_score * 10
            rec == ret.decision[1].recommendation
        IN  /\ s >= AcceptBreak * Unit => rec = "ACCEPT"
            /\ (call.confidence_threshold * Unit <= s /\ s < AcceptBreak * Unit)
                   => rec = "REVIEW"
            /\ s < call.confidence_threshold * Unit => rec = "REJECT"

\* C5 witness: a REVIEW, for a top score between a threshold and 0.70
C5_Witness ==
    /\ SelectReturned
    /\ ret.decision[1].retrieved_sops # <<>>
    /\ call.confidence_threshold <= AcceptBreak
    /\ call.confidence_threshold * Unit <= ret.decision[1].confidence_score * 10
    /\ ret.decision[1].confidence_score * 10 < AcceptBreak * Unit
    /\ ret.decision[1].recommendation = "REVIEW"

\* C6: for every confidence_threshold, a top score below the threshold is
\* recommended REJECT, and never ACCEPT.
C6_BelowThresholdRejected ==
    (SelectReturned /\ ret.decision[1].retrieved_sops # <<>>
        /\ ret.decision[1].confidence_score * 10 < call.confidence_threshold * Unit) =>
        ret.decision[1].recommendation = "REJECT"

C8_ExactFromReported ==
    RetrieveReturned =>
        \A p \in 1..Len(ret.results) :
            10 * ret.results[p].confidence_score =
                call.semantic_weight * ret.results[p].semantic_score
                    + call.bm25_weight * ret.results[p].bm25_score

\* C8 amended: the returned confidence_score differs from semantic_weight *
\* semantic_score + bm25_weight * bm25_score by at most the rounding of the three
\* returned values to 4 decimals, 0.00005 * (1 + semantic_weight + bm25_weight).
C8_WithinRounding ==
    RetrieveReturned =>
        \A p \in 1..Len(ret.results) :
            2 * Abs(10 * ret.results[p].confidence_score
                        - (call.semantic_weight * ret.results[p].semantic_score
                               + call.bm25_weight * ret.results[p].bm25_score))
                <= 10 + call.semantic_weight + call.bm25_weight

\* C8 witness: a returned entry whose recomputed score is not its confidence_score
C8_Witness ==
    /\ RetrieveReturned
    /\ \E p \in 1..Len(ret.results) :
           /\ ret.results[p].semantic_score > 0
           /\ ret.results[p].bm25_score > 0
           /\ 10 * ret.results[p].confidence_score #
                  call.semantic_weight * ret.results[p].semantic_score
                      + call.bm25_weight * ret.results[p].bm25_score

\* C9: with the default weights every returned semantic_score, bm25_score and
\* confidence_score lies in [0.0, 1.0].
C9_ScoresInUnitRange ==
    (RetrieveReturned /\ call.semantic_weight = DefaultSemanticWeight
        /\ call.bm25_weight = DefaultBm25Weight) =>
        \A p \in 1..Len(ret.results) :
            /\ ret.results[p].semantic_score \in 0..Unit
            /\ ret.results[p].bm25_score \in 0..Unit
            /\ ret.results[p].confidence_score \in 0..Unit

\* C10: while no build_index and no load_index call has succeeded, every query
\* fails with the index-not-ready error.
C10_NotReadyUntilSuccess ==
    (QueryCalled /\ ~built_or_loaded) =>
        ret.raised = "ValueError: Index not built or loaded"

\* C11: build_index on a source without a valid record raises the empty-catalog
\* error and leaves both snapshot files as they were, and every query on an
\* instance whose catalog is empty is refused as "not built or loaded".
C11_EmptyCatalogRefused ==
    [][/\ (call'.op = "build_index" /\ sop_chunks' = <<>>) =>
            (ret'.raised = "ValueError: No SOP chunks found" /\ disk' = disk)
       /\ (call'.op \in {"retrieve_relevant_sops", "select_best_sop", "process_incident"}
             /\ sop_chunks' = <<>>) =>
            ret'.raised = "ValueError: Index not built or loaded"]_vars

\* an empty source given to an instance that had saved a snapshot before
C11_Witness ==
    /\ call.op = "build_index"
    /\ ret.raised = "ValueError: No SOP chunks found"
    /\ sop_chunks = <<>>
    /\ faiss_index # None
    /\ disk.meta # None /\ disk.faiss # None

\* C12: the persisted snapshot is all-or-nothing: at every point of every sequence
\* of build_index calls on one save_path, failed ones and rebuilds included, a
\* metadata file that can be read is paired with the embedding blob of its own
\* build, i.e. the blob holds one row per record of the metadata, for those records.
C12_SnapshotAllOrNothing ==
    (disk.meta # None /\ disk.meta[1].valid) =>
        disk.faiss = Some(Corpus(disk.meta[1].sop_chunks))

\* C13: load_index raises the snapshot-not-found error (FileNotFoundError) whenever
\* the metadata file or the embedding-blob file is missing, and returns only when
\* both files exist.
C13_LoadNeedsBothFiles ==
    call.op = "load_index" =>
        /\ (disk.meta = None \/ disk.faiss = None) =>
               ret.raised \in {"FileNotFoundError: Index file not found",
                               "FileNotFoundError: FAISS index file not found"}
        /\ ret.raised = "none" => (disk.meta # None /\ disk.faiss # None)

\* the metadata file is there and its blob is not
C13_Witness ==
    /\ call.op = "load_index"
    /\ disk.meta # None /\ disk.faiss = None
    /\ ret.raised = "FileNotFoundError: FAISS index file not found"

\* the three stores hold the same records, row by row
SameBuild ==
    /\ faiss_index = Some(Corpus(sop_chunks))
    /\ bm25 = Some(TokenizedCorpus(Corpus(sop_chunks)))

\* C14: in every state in which a query succeeds, after any sequence of successful
\* and failed build_index and load_index calls, the catalog, the embedding index
\* and the lexical index come from one build: as many rows each, and row i of
\* each is the same SOP record.
C14_StoresFromOneBuild ==
    (RetrieveReturned \/ SelectReturned) => SameBuild

\* C15: a query that runs while another thread rebuilds the same instance reads
\* the three stores of one build, the old one or the new one, never a mixture.
\* (call names the call that took the last step, and a query changes no store:
\* in a state a query has just left, the stores are what that query read.)
C15_QuerySeesOneBuild ==
    QueryCalled => SameBuild

\* the stores of the instance on which build_index(Source(n), path) has returned,
\* and the two files that call has left at path
BuiltStores(n) ==
    LET chunks == ParseSops(Source(n))
    IN  [sop_chunks |-> chunks,
         tokenized_corpus |-> TokenizedCorpus(Corpus(chunks)),
         faiss_index |-> Some(Corpus(chunks)),
         bm25 |-> Some(TokenizedCorpus(Corpus(chunks)))]

SavedBy(n) ==
    [faiss |-> BuiltStores(n).faiss_index,
     meta |-> Some(Snapshot(BuiltStores(n).sop_chunks, BuiltStores(n).tokenized_corpus))]

\* C16: round trip. Once load_index(path) has returned on a fresh instance, path
\* holding what build_index(catalog, path) saved on another instance, the fresh
\* instance has the catalog, token lists, embedding rows and lexical index of the
\* building instance, and every query on it gives what the same query with the
\* same arguments gives on the building instance.
C16_RoundTrip ==
    \A n \in 1..MaxRows :
        (disk = SavedBy(n) /\ built_or_loaded) =>
            LET b == BuiltStores(n)
            IN  /\ sop_chunks = b.sop_chunks
                /\ tokenized_corpus = b.tokenized_corpus
                /\ faiss_index = b.faiss_index
                /\ bm25 = b.bm25
                /\ call.op = "retrieve_relevant_sops" =>
                       ret = RetrieveRelevantSops(b.sop_chunks, b.faiss_index, b.bm25,
                                                  oracle, argsort_ties, call.top_k,
                                                  call.semantic_weight, call.bm25_weight)
                /\ call.op \in {"select_best_sop", "process_incident"} =>
                       ret = SelectBestSop(b.sop_chunks, b.faiss_index, b.bm25, oracle,
                                           argsort_ties, call.top_k,
                                           call.confidence_threshold)

\* a loaded three-record snapshot, queried
C16_Witness ==
    /\ disk = SavedBy(MaxRows)
    /\ built_or_loaded
    /\ RetrieveReturned
    /\ Len(ret.results) = MaxRows

\* C17: queries are read-only. A step of retrieve_relevant_sops, select_best_sop
\* or process_incident leaves the catalog, the token lists, the embedding index
\* and the lexical index as they were; on a ready instance (its three stores are
\* those of one completed build or load, and not empty) every query returns,
\* whatever was called before it; and a query repeated with the same arguments
\* gives the result it gave before.
C17_QueriesReadOnly ==
    [][call'.op \in {"retrieve_relevant_sops", "select_best_sop", "process_incident"} =>
          /\ UNCHANGED <<sop_chunks, tokenized_corpus, faiss_index, bm25>>
          /\ (sop_chunks # <<>> /\ SameBuild) => ret'.raised = "none"
          /\ call' = call => ret' = ret]_vars

\* a query has returned on a ready instance of the largest catalog, after a
\* snapshot was saved
C17_Witness ==
    /\ SelectReturned
    /\ SameBuild
    /\ Len(sop_chunks) = MaxRows
    /\ disk.meta # None

\* C18: parse_sops never raises because of a malformed record: it skips every
\* section whose first line is not 'SOP-<integer>: <title>' (a number that is not
\* a number, a missing colon) and returns the chunks of all well-formed records
\* of the file, in file order.
C18_MalformedSkipped ==
    call.op = "parse_sops" =>
        LET WellFormed(sec) == sec.starts /\ sec.colon /\ sec.digits
            good == SelectSeq(sop_file, WellFormed)
        IN  /\ ret.raised = "none"
            /\ ret.results = [i \in 1..Len(good) |-> Chunk(good[i].d)]

\* C19: in every decision with at least one candidate, alternative_sops is
\* retrieved_sops without its first entry, in the same order; every alternative
\* has the tier of its own (unrounded) score; and no alternative has a
\* confidence_score above that of the selected SOP.
C19_AlternativesAreTheRest ==
    (SelectReturned /\ ret.decision[1].retrieved_sops # <<>>) =>
        LET d == ret.decision[1]
            hybrid == QueryHybrid
        IN  /\ d.alternative_sops = Some(Tail(d.retrieved_sops))
            /\ \A p \in 1..Len(d.alternative_sops[1]) :
                   LET alt == d.alternative_sops[1][p]
                   IN  /\ alt.confidence_level = ConfidenceLevel(hybrid[alt.row])
                       /\ alt.confidence_score <= d.confidence_score

\* two alternatives of a tier other than the selected SOP's
C19_Witness ==
    /\ SelectReturned
    /\ ret.decision[1].retrieved_sops # <<>>
    /\ Len(ret.decision[1].alternative_sops[1]) >= 2
    /\ \A p \in 1..Len(ret.decision[1].alternative_sops[1]) :
           ret.decision[1].alternative_sops[1][p].confidence_level
               # ret.decision[1].confidence_level

\* C20: select_best_sop answers tier NONE, recommendation NO_MATCH and no selected
\* SOP exactly when retrieval gave no candidate; on a ready instance with
\* top_k >= 1 it returns and always selects a SOP, with a tier among HIGH, MEDIUM,
\* LOW and a recommendation among ACCEPT, REVIEW, REJECT.
C20_NoMatchOnlyWithoutCandidate ==
    /\ (call.op \in {"select_best_sop", "process_incident"} /\ call.top_k >= 1) =>
           ret.raised = "none"
    /\ SelectReturned =>
           LET d == ret.decision[1]
           IN  /\ d.retrieved_sops = <<>> =>
                      /\ d.confidence_level = "NONE"
                      /\ d.recommendation = "NO_MATCH"
                      /\ d.selected_sop_id = None
               /\ d.retrieved_sops # <<>> =>
                      /\ d.confidence_level # "NONE"
                      /\ d.recommendation # "NO_MATCH"
                      /\ d.selected_sop_id # None
               /\ call.top_k >= 1 =>
                      /\ d.selected_sop_id # None
                      /\ d.confidence_level \in {"HIGH", "MEDIUM", "LOW"}
                      /\ d.recommendation \in {"ACCEPT", "REVIEW", "REJECT"}

\* top_k = 0 on a built instance: no candidate, NO_MATCH
C20_Witness ==
    /\ SelectReturned
    /\ call.top_k = 0
    /\ ret.decision[1].retrieved_sops = <<>>
    /\ ret.decision[1].recommendation = "NO_MATCH"

\* C21: the metadata file and the blob file of a snapshot path are two files,
\* and load_index resolves the blob build_index wrote: a load_index(path) that
\* follows a build_index(path) that returned, returns as well.
C21_LoadFollowsBuild ==
    [][(/\ call.op = "build_index" /\ ret.raised = "none"
        /\ call'.op = "load_index" /\ call'.path = call.path) =>
            ret'.raised = "none"]_vars

\* the raw score vectors of the last query, before normalization
QuerySemantic ==
    SemanticScores(Len(sop_chunks), faiss_index[1],
                   FaissSearch(faiss_index[1], oracle, Min(Len(sop_chunks), FaissCap)),
                   oracle)

QueryBm25 == Bm25Scores(bm25[1], oracle)

\* C22: when the maximum of a raw score vector, semantic or lexical, is > 0, the
\* maximum of the normalized vector is exactly 1.0 and the row of the raw maximum
\* has it; a returned row of the raw maximum reports the score 1.0.
C22_NormalizedMaxIsOne ==
    RetrieveReturned =>
        LET sem == QuerySemantic
            bm == QueryBm25
            sn == Normalize(sem)
            bn == Normalize(bm)
        IN  /\ SeqMax(sem) > 0 =>
                   /\ SeqMax(sn) = Fine
                   /\ \A i \in 1..Len(sem) : sem[i] = SeqMax(sem) => sn[i] = Fine
                   /\ \A p \in 1..Len(ret.results) :
                          sem[ret.results[p].row] = SeqMax(sem)
                              => ret.results[p].semantic_score = Unit
            /\ SeqMax(bm) > 0 =>
                   /\ SeqMax(bn) = Fine
                   /\ \A i \in 1..Len(bm) : bm[i] = SeqMax(bm) => bn[i] = Fine
                   /\ \A p \in 1..Len(ret.results) :
                          bm[ret.results[p].row] = SeqMax(bm)
                              => ret.results[p].bm25_score = Unit

\* both modalities have a positive maximum, at different rows, and both rows
\* are returned
C22_Witness ==
    /\ RetrieveReturned
    /\ SeqMax(QuerySemantic) > 0 /\ SeqMax(QueryBm25) > 0
    /\ \E p, q \in 1..Len(ret.results) :
           /\ p # q
           /\ ret.results[p].semantic_score = Unit /\ ret.results[p].bm25_score < Unit
           /\ ret.results[q].bm25_score = Unit /\ ret.results[q].semantic_score < Unit

\* C23: when the maximum of a raw score vector is 0.0, the normalized vector
\* that enters the fusion is all zeros: that modality adds 0 to the fused score
\* of every row, and every returned row reports 0.0 for it.
C23_ZeroMaxGivesZeros ==
    RetrieveReturned =>
        LET sem == QuerySemantic
            bm == QueryBm25
        IN  /\ SeqMax(sem) = 0 =>
                   /\ \A i \in 1..Len(sem) : Normalize(sem)[i] = 0
                   /\ \A p \in 1..Len(ret.results) : ret.results[p].semantic_score = 0
            /\ SeqMax(bm) = 0 =>
                   /\ \A i \in 1..Len(bm) : Normalize(bm)[i] = 0
                   /\ \A p \in 1..Len(ret.results) : ret.results[p].bm25_score = 0

\* the last query had no signal: every raw semantic and every raw lexical score is 0
ZeroSignal ==
    /\ \A i \in 1..Len(QuerySemantic) : QuerySemantic[i] = 0
    /\ \A i \in 1..Len(QueryBm25) : QueryBm25[i] = 0

\* C24: a query with zero semantic and zero lexical signal on every row does not
\* fail and is not answered by an empty list: retrieve_relevant_sops returns
\* min(top_k, n) rows, each with fused score 0.0 and tier LOW.
C24_ZeroSignalStillReturns ==
    (call.op = "retrieve_relevant_sops" /\ ZeroSignal) =>
        /\ ret.raised = "none"
        /\ Len(ret.results) = Min(call.top_k, Len(sop_chunks))
        /\ \A p \in 1..Len(ret.results) :
               /\ ret.results[p].confidence_score = 0
               /\ ret.results[p].confidence_level = "LOW"

\* the whole of the largest catalog returned for a query without signal
C24_Witness ==
    /\ RetrieveReturned
    /\ ZeroSignal
    /\ call.top_k >= MaxRows
    /\ Len(ret.results) = MaxRows

\* the positions of the lines of text that consist of '---' and nothing else
DelimiterLines(text) ==
    {i \in 1..Len(text) :
        /\ text[i] = Dashes
        /\ i = 1 \/ text[i - 1] = Newline
        /\ i = Len(text) \/ text[i + 1] = Newline}

\* C25: parse_sops splits the source only at the lines that consist of exactly
\* '---': dashes inside a line of a record's body (a longer run of dashes, a
\* table rule) neither split nor shorten the record, so the chunks returned are
\* those of the records between the delimiter lines, each with its whole text.
C25_SplitsAtDelimiterLinesOnly ==
    call.op = "parse_sops" =>
        /\ ret.raised = "none"
        /\ ret.results = ChunksOf(SplitAt(sop_file, DelimiterLines(sop_file)))

\* C26: every catalog parse_sops produces keeps the constraints of a SopRecord:
\* the number of each record is an integer of at least 1, and no two records of
\* the catalog share a number or an id.
C26_NumbersPositiveAndUnique ==
    (call.op = "parse_sops" /\ ret.raised = "none") =>
        \A i, j \in 1..Len(ret.results) :
            /\ ret.results[i].sop_number >= 1
            /\ i # j => /\ ret.results[i].sop_number # ret.results[j].sop_number
                        /\ ret.results[i].id # ret.results[j].id

\* the records of text: what stands between its delimiter lines, stripped
Records(text) ==
    LET parts == SplitAt(text, DelimiterLines(text))
    IN  [k \in 1..Len(parts) |-> Strip(parts[k])]

\* C27: parse_sops returns one chunk per well-formed record, in file order; each
\* chunk has the fields id, title, content and sop_number, where sop_number is
\* the integer of the record's header, id is 'sop_<number>', title starts with
\* 'SOP-' and content is the text of the record, its header line included.
C27_OneChunkPerRecord ==
    call.op = "parse_sops" =>
        LET good == SelectSeq(Records(sop_file), StartsWithSop)
        IN  /\ ret.raised = "none"
            /\ Len(ret.results) = Len(good)
            /\ \A k \in 1..Len(ret.results) :
                   LET chunk == ret.results[k]
                   IN  /\ DOMAIN chunk = {"id", "title", "content", "sop_number"}
                       /\ chunk.sop_number = good[k][1].n
                       /\ chunk.id = [prefix |-> "sop_", number |-> chunk.sop_number]
                       /\ chunk.title.prefix = "SOP-"
                       /\ chunk.content = good[k]

\* C28: in every decision with a selected SOP, the recommendation is ACCEPT
\* exactly when the confidence_level of the selected SOP is HIGH, whatever the
\* fused score is, a score just below 0.70 before rounding included.
C28_AcceptIffHigh ==
    (SelectReturned /\ ret.decision[1].retrieved_sops # <<>>) =>
        (ret.decision[1].recommendation = "ACCEPT"
            <=> ret.decision[1].confidence_level = "HIGH")

\* C29: a build_index or load_index call that raises (empty catalog, missing
\* metadata or blob, a failing collaborator or write) leaves the catalog, the
\* tokenized corpus, the embedding index and the lexical index exactly as they
\* were before the call, so an instance that answered queries before the call
\* answers them with the same results after it.
C29_FailedCallKeepsStores ==
    [][(call'.op \in {"build_index", "load_index"} /\ ret'.raised # "none") =>
          UNCHANGED <<sop_chunks, tokenized_corpus, faiss_index, bm25>>]_vars

\* C30: after a successful load_index the embedding model that encodes the
\* queries is the model recorded in the snapshot (load_index adopts the saved
\* model_name, or fails when it differs from the instance's), so the query
\* vectors come from the model that made the loaded rows.
C30_LoadedModelIsSnapshotModel ==
    (call.op = "load_index" /\ ret.raised = "none") =>
        /\ model_name = files[call.path][1].model_name
        /\ \A i \in 1..Len(faiss_index[1]) : faiss_index[1][i].model = model_name

====
